---- MODULE Spec2Model ----
(***************************************************************************)
(* Model of the room relay of server.ts: the WebSocket broker, its         *)
(* registry `clients` (room code -> set of sockets) and the JSON           *)
(* re-serialisation applied to every relayed message; and of the room      *)
(* API of server.ts over the Mongo collection and the localRooms map.      *)
(*                                                                         *)
(* The broker code (wss.on("connection") and the two listeners it          *)
(* installs) is the same in both variants of server.ts (lines 118-154 and  *)
(* 280-315).                                                               *)
(***************************************************************************)
EXTENDS Integers, Sequences, FiniteSets, TLC

(***************************************************************************)
(* Bounds                                                                  *)
(***************************************************************************)
\* number of sockets that ever connect to the broker
MaxConns == 3
\* number of inbound message events handled in one behaviour
MaxSent == 2

Conns == 1..MaxConns

(***************************************************************************)
(* Handshake: url.searchParams.get("code") is null when the parameter is   *)
(* absent, otherwise the parameter's string (possibly empty).              *)
(***************************************************************************)
Null == "<null>"
RoomCodes == {"ab12cd", "AB12CD"}
HandshakeCodes == {Null, ""} \cup RoomCodes

\* mutant: tests `code === null`, letting the empty code through
FalsyNullOnly(code) == code = Null

\* `!code` of the connection handler: null and "" are falsy
Falsy(code) == code = Null \/ code = ""

(***************************************************************************)
(* JSON texts.  A text is a sequence of lexical tokens; " " is             *)
(* insignificant whitespace between tokens.                                *)
(***************************************************************************)
StringTokens == {"\"type\"", "\"payload\"", "\"SYNC_NOTES\"", "\"suspect lied\"", "\"A\"", "\"B\""}
LiteralTokens == {"null", "true", "false"}

CanonicalText ==
  <<"{", "\"type\"", ":", "\"SYNC_NOTES\"", ",", "\"payload\"", ":", "\"suspect lied\"", "}">>
SpacedText ==
  <<"{", "\"type\"", ":", " ", "\"SYNC_NOTES\"", ",", " ", "\"payload\"", ":", " ", "\"suspect lied\"", "}">>
DuplicateKeyText ==
  <<"{", "\"type\"", ":", "\"A\"", ",", "\"type\"", ":", "\"B\"", "}">>
TruncatedText ==
  <<"{", "\"type\"", ":", "\"SYNC_NOTES\"">>

\* the message texts a peer may put on the wire
Payloads == {CanonicalText, SpacedText, DuplicateKeyText, TruncatedText}

(***************************************************************************)
(* JSON.parse.  A parsed value is [kind, s, members]: kind is "str",       *)
(* "lit" or "obj"; s is the scalar; members is the object's <<key, value>> *)
(* list in property order.                                                 *)
(***************************************************************************)
SyntaxError == [kind |-> "SyntaxError", s |-> "", members |-> <<>>]
Scalar(kind, s) == [kind |-> kind, s |-> s, members |-> <<>>]
Object(members) == [kind |-> "obj", s |-> "", members |-> members]

ScalarValue(tok) ==
  IF tok \in StringTokens THEN Scalar("str", tok) ELSE Scalar("lit", tok)

RECURSIVE StripWhitespace(_)
StripWhitespace(text) ==
  IF text = <<>> THEN <<>>
  ELSE IF Head(text) = " " THEN StripWhitespace(Tail(text))
  ELSE <<Head(text)>> \o StripWhitespace(Tail(text))

\* obj[key] = value: an existing property keeps its position, a new one is
\* added last
SetMember(members, key, value) ==
  IF \E i \in 1..Len(members) : members[i][1] = key
  THEN [i \in 1..Len(members) |->
          IF members[i][1] = key THEN <<key, value>> ELSE members[i]]
  ELSE Append(members, <<key, value>>)

ParseFail == [ok |-> FALSE, val |-> SyntaxError, rest |-> <<>>]
ParseOk(val, rest) == [ok |-> TRUE, val |-> val, rest |-> rest]

RECURSIVE ParseValue(_), ParseMembers(_, _)
ParseValue(toks) ==
  IF toks = <<>> THEN ParseFail
  ELSE IF Head(toks) = "{" THEN
    IF Len(toks) >= 2 /\ toks[2] = "}"
    THEN ParseOk(Object(<<>>), SubSeq(toks, 3, Len(toks)))
    ELSE ParseMembers(Tail(toks), <<>>)
  ELSE IF Head(toks) \in StringTokens \cup LiteralTokens
    THEN ParseOk(ScalarValue(Head(toks)), Tail(toks))
  ELSE ParseFail

ParseMembers(toks, acc) ==
  IF Len(toks) < 3 \/ toks[1] \notin StringTokens \/ toks[2] # ":" THEN ParseFail
  ELSE LET v == ParseValue(SubSeq(toks, 3, Len(toks))) IN
    IF ~v.ok \/ v.rest = <<>> THEN ParseFail
    ELSE LET acc2 == SetMember(acc, toks[1], v.val) IN
      IF Head(v.rest) = "}" THEN ParseOk(Object(acc2), Tail(v.rest))
      ELSE IF Head(v.rest) = "," THEN ParseMembers(Tail(v.rest), acc2)
      ELSE ParseFail

\* JSON.parse(message.toString()); SyntaxError stands for the thrown error
JSONParse(text) ==
  LET r == ParseValue(StripWhitespace(text)) IN
    IF r.ok /\ r.rest = <<>> THEN r.val ELSE SyntaxError

(***************************************************************************)
(* JSON.stringify: the compact text of a value, no whitespace.             *)
(***************************************************************************)
RECURSIVE JSONStringify(_), StringifyMembers(_)
JSONStringify(val) ==
  IF val.kind = "obj" THEN <<"{">> \o StringifyMembers(val.members) \o <<"}">>
  ELSE <<val.s>>

StringifyMembers(members) ==
  IF members = <<>> THEN <<>>
  ELSE <<members[1][1], ":">> \o JSONStringify(members[1][2])
       \o (IF Len(members) = 1 THEN <<>> ELSE <<",">> \o StringifyMembers(Tail(members)))

(***************************************************************************)
(* What the message listener computes for each text a peer may send:       *)
(* data = JSON.parse(message.toString()), and the JSON.stringify(data) it  *)
(* sends (unused when the parse throws).                                   *)
(***************************************************************************)
ParsedData == [text \in Payloads |-> JSONParse(text)]
FrameData == [text \in Payloads |-> JSONStringify(ParsedData[text])]

(***************************************************************************)
(* State                                                                   *)
(***************************************************************************)
VARIABLES
  running,     \* the node process is alive (no uncaught exception yet)
  clients,     \* the registry: room code -> set of sockets
  code,        \* per socket: the `code` its two listeners have captured
  listening,   \* per socket: the message and close listeners are installed
  readyState,  \* per socket: ws.readyState
  seq,         \* history: the number of message events dispatched so far
  delivered    \* per socket: the client.send calls made on it while it
               \* lives, in order; history, dropped with the socket

vars == <<running, clients, code, listening, readyState, seq, delivered>>

\* the empty Map
EmptyMap == [c \in {} |-> {}]

(***************************************************************************)
(* The room API.  server.ts holds two variants of it: "mongo" (lines       *)
(* 24-93) talks to the Room model only; "fallback" (lines 185-256) uses    *)
(* the localRooms map whenever mongoose.connection.readyState is not 1.    *)
(***************************************************************************)
Variants == {"mongo", "fallback"}
Modes == {"SINGLE", "COOP"}

\* room data: the initialData of createRoom has an empty chatHistory; an
\* edited document has notes and a chat entry
DataInitial ==
  Object(<< <<"notes", Scalar("str", "")>>,
            <<"chatHistory", Object(<<>>)>>,
            <<"players", Scalar("str", "p1")>> >>)
DataEdited ==
  Object(<< <<"notes", Scalar("str", "suspect lied")>>,
            <<"chatHistory", Object(<< <<"s1", Scalar("str", "hello")>> >>)>>,
            <<"players", Scalar("str", "p1")>> >>)
Datas == {DataInitial, DataEdited}

\* a property that is not there
Undefined == Scalar("undefined", "")

(***************************************************************************)
(* A mongoose schema built without options has `minimize` on: save() and  *)
(* toJSON() remove empty objects from the document, at every depth of a    *)
(* Mixed (type: Object) path.                                              *)
(***************************************************************************)
RECURSIVE Minimize(_), MinimizeMembers(_)
Minimize(val) ==
  IF val.kind # "obj" THEN val
  ELSE LET ms == MinimizeMembers(val.members) IN
    IF ms = <<>> THEN Undefined ELSE Object(ms)

MinimizeMembers(members) ==
  IF members = <<>> THEN <<>>
  ELSE LET v == Minimize(members[1][2]) IN
    (IF v = Undefined THEN <<>> ELSE << <<members[1][1], v>> >>)
    \o MinimizeMembers(Tail(members))

\* the data of a saved document, for each data a client may post
SavedData == [d \in Datas |-> Minimize(d)]

\* a room document: new Room({ code, mode, data }) / { code, mode, data }
RoomDoc(c, m, d) == [code |-> c, mode |-> m, data |-> d]
NoRoom == RoomDoc(Null, Null, Undefined)

\* no room under any code
NoRooms == [c \in {} |-> NoRoom]

\* the state of the mongoose connection of the process: MONGODB_URI unset,
\* initial connect failed, connected, or disconnected after having connected
MongoStates == {"unconfigured", "failed", "connected", "disconnected"}

\* the outcomes of startServer's connection attempt
StartupStates == MongoStates \ {"disconnected"}

\* what startServer writes to the console for each outcome of the startup
StartupLog(m) ==
  IF m = "unconfigured" THEN "warn: MONGODB_URI not found"
  ELSE IF m = "failed" THEN "error: MongoDB connection error"
  ELSE "log: Connected to MongoDB Cloud"

\* the request before the latest one: what was asked and the status answered
NoRequest ==
  [op |-> "none", code |-> Null, mode |-> Null, data |-> Undefined, status |-> 0]

\* no request answered yet
NoResponse ==
  [op |-> "none", code |-> Null, mode |-> Null, data |-> Undefined,
   status |-> 0, room |-> NoRoom, served |-> "none", prev |-> NoRequest]

(***************************************************************************)
(* The TTL index on createdAt.  A clock is kept in seconds for every       *)
(* document: age is the time since its createdAt, idle the time since the  *)
(* last create or update of it that was acknowledged.                      *)
(***************************************************************************)
Day == 86400

\* createdAt: { expires: 86400 * 365 } and { expires: 86400 * 7 }
ExpireAfterSeconds(v) == IF v = "mongo" THEN Day * 365 ELSE Day * 7

\* createdAt: { default: Date.now } of a new document
Fresh == [age |-> 0, idle |-> 0]

\* mutant: no update refreshes createdAt
TouchNever(v, t) == [age |-> t.age, idle |-> 0]

\* the update document: { data, createdAt: new Date() } and { data }
Touch(v, t) == [age |-> IF v = "mongo" THEN 0 ELSE t.age, idle |-> 0]

\* the clocks after d seconds; they are not followed beyond the window
Later(v, t, d) ==
  [age |-> IF t.age + d > ExpireAfterSeconds(v) THEN ExpireAfterSeconds(v) ELSE t.age + d,
   idle |-> IF t.idle + d > ExpireAfterSeconds(v) THEN ExpireAfterSeconds(v) ELSE t.idle + d]

VARIABLES
  variant,     \* which variant of server.ts the process runs
  mongo,       \* the mongoose connection of the process
  db,          \* the rooms collection: code -> room document
  localRooms,  \* the localRooms map of the process: code -> room object
  logged,      \* the console lines the process has written
  resp,        \* history: the latest API request and its response
  ttl          \* code -> the clocks of the document in the rooms collection

storeVars == <<variant, mongo, db, localRooms, logged, resp, ttl>>


(***************************************************************************)
(* The browser clients of one room (App.tsx).  Each player runs one App;   *)
(* a handler that awaits keeps the `investigation` of the render it was    *)
(* created in.                                                             *)
(***************************************************************************)
\* how many notes edits, questions and accusations the players make in all
MaxActs == 2

Players == {"p1", "p2", "p3"}

\* RoomData: players, notes, chatHistory (the messages of the one suspect,
\* their order left out) and accusationResult
RoomData(ps, n, ch, v) == [players |-> ps, notes |-> n, chat |-> ch, verdict |-> v]

\* useState<InvestigationState>: players [], notes '', chatHistory {}
EmptyData == RoomData({}, "", {}, Null)

\* no room has been posted
NoSnapshot == [mode |-> Null, data |-> EmptyData]

\* the App of a player before it creates or joins a room
StartApp ==
  [stage |-> "START", data |-> EmptyData, pc |-> "idle",
   closure |-> EmptyData, open |-> FALSE]

\* nothing has been sent over a live connection
NothingLive == [chat |-> {}, notes |-> Null, verdict |-> Null]

VARIABLES
  snapshot,   \* the room the Snapshot API holds: its mode and its data
  app,        \* player -> gameState, investigation, handler position,
              \* the investigation its pending handler closed over, socket
  live,       \* history: what has been sent over a live connection
  acts        \* history: the number of user actions started

clientVars == <<snapshot, app, live, acts>>

ClientStart ==
  /\ snapshot = NoSnapshot
  /\ app = [p \in Players |-> StartApp]
  /\ live = NothingLive
  /\ acts = 0

(***************************************************************************)
(* One page of the App and the sockets its WebSocket effect has created    *)
(***************************************************************************)
\* how many sockets the effect of the page creates
MaxSockets == 2

\* useState<InvestigationState>: code ''
NoCode == ""

\* no message has been handled by socket.onmessage
NothingHandled == [socket |-> NoCode, code |-> NoCode]

VARIABLES
  gameState,      \* GameState of the page
  investigation,  \* the code of the investigation state of the page
  generated,      \* createRoom: the mode it was called with, while it awaits
  deps,           \* the investigation.code the WebSocket effect last ran with
  sockets,        \* the sockets the effect created, in order: the room code
                  \* in their URL and their readyState
  handled         \* history: the latest message handled by onmessage, the
                  \* code of its socket and investigation.code at that time

pageVars == <<gameState, investigation, generated, deps, sockets, handled>>

PageStart ==
  /\ gameState = "START"
  /\ investigation = [code |-> NoCode]
  /\ generated = Null
  /\ deps = NoCode
  /\ sockets = <<>>
  /\ handled = NothingHandled

(***************************************************************************)
(* callWithRetry and the API keys it rotates through                       *)
(***************************************************************************)
\* maxRetries = 5
MaxRetries == 5

\* how many API keys getApiKeys can find
MaxKeys == 2

\* how many calls of callWithRetry are made
MaxCalls == 2

VARIABLES
  apiKeys,          \* apiKeys.length
  currentKeyIndex,  \* the module variable currentKeyIndex
  calls             \* the calls of callWithRetry made so far, each with its
                    \* position, loop index i, key of its `ai`, the key of
                    \* the attempt that failed last, and outcome

retryVars == <<apiKeys, currentKeyIndex, calls>>

\* `let apiKeys = getApiKeys(); let currentKeyIndex = 0` with n keys found
RetryStart(n) ==
  /\ apiKeys = n
  /\ currentKeyIndex = 0
  /\ calls = <<>>

\* the broker after `new WebSocketServer` and `new Map`
RelayInit ==
  /\ running = TRUE
  /\ clients = EmptyMap
  /\ code = [ws \in Conns |-> Null]
  /\ listening = [ws \in Conns |-> FALSE]
  /\ readyState = [ws \in Conns |-> "CONNECTING"]
  /\ seq = 0
  /\ delivered = [ws \in Conns |-> <<>>]

\* startServer of variant v, the connection attempt ending in state m: the
\* process starts with an empty localRooms and its startup line logged
StoreStart(v, m) ==
  /\ variant = v
  /\ mongo = m
  /\ db = NoRooms
  /\ localRooms = NoRooms
  /\ logged = {StartupLog(m)}
  /\ resp = NoResponse
  /\ ttl = NoRooms

\* the relay is studied in a process that takes no API request
Init ==
  /\ RelayInit /\ StoreStart("fallback", "unconfigured") /\ ClientStart
  /\ PageStart /\ RetryStart(1)

(***************************************************************************)
(* Registry operations, as the handlers perform them                       *)
(***************************************************************************)
\* mutant: the handler registers the socket under the upper-cased code
RegisterUpperCase(map, c, ws) ==
  LET u == IF c = "ab12cd" THEN "AB12CD" ELSE c IN
  [k \in DOMAIN map \cup {u} |->
     IF k = u THEN (IF u \in DOMAIN map THEN map[u] ELSE {}) \cup {ws} ELSE map[k]]

\* mutant: the connection handler stores a new set whatever the map holds
RegisterReplace(map, c, ws) ==
  [k \in DOMAIN map \cup {c} |-> IF k = c THEN {ws} ELSE map[k]]

\* if (!clients.has(code)) clients.set(code, new Set()); clients.get(code).add(ws)
Register(map, c, ws) ==
  [k \in DOMAIN map \cup {c} |->
     IF k = c THEN (IF c \in DOMAIN map THEN map[c] ELSE {}) \cup {ws} ELSE map[k]]

\* mutant: the close listener deletes the room's entry whoever remains
UnregisterDropRoom(map, c, ws) == [k \in DOMAIN map \ {c} |-> map[k]]

\* mutant: the close listener removes the socket but never the entry
UnregisterKeepEntry(map, c, ws) ==
  [k \in DOMAIN map |-> IF k = c THEN map[c] \ {ws} ELSE map[k]]

\* mutant: the close listener leaves the socket in the set
UnregisterNoDelete(map, c, ws) == map

\* roomClients.delete(ws); if (roomClients.size === 0) clients.delete(code)
Unregister(map, c, ws) ==
  IF c \notin DOMAIN map THEN map
  ELSE IF map[c] \ {ws} = {}
    THEN [k \in DOMAIN map \ {c} |-> map[k]]
    ELSE [k \in DOMAIN map |-> IF k = c THEN map[c] \ {ws} ELSE map[k]]

\* mutant: the forEach runs over the sockets of every room
RecipientsAnyRoom(map, c, ws) ==
  {client \in UNION {map[k] : k \in DOMAIN map} : client # ws /\ readyState[client] = "OPEN"}

\* mutant: the forEach does not skip the sender
RecipientsWithEcho(map, c, ws) ==
  IF c \notin DOMAIN map THEN {}
  ELSE {client \in map[c] : readyState[client] = "OPEN"}

\* mutant: the forEach does not test readyState
RecipientsIgnoreState(map, c, ws) ==
  IF c \notin DOMAIN map THEN {}
  ELSE {client \in map[c] : client # ws}

\* the sockets the forEach of the message listener sends to
Recipients(map, c, ws) ==
  IF c \notin DOMAIN map THEN {}
  ELSE {client \in map[c] : client # ws /\ readyState[client] = "OPEN"}

\* mutant: the frame jumps the socket's queue
SendFirst(queue, frame) == <<frame>> \o queue

\* client.send(data): one more frame queued on the socket
Send(queue, frame) == Append(queue, frame)

(***************************************************************************)
(* wss.on("connection"): sockets are numbered in the order they arrive     *)
(***************************************************************************)
Connection(ws, c) ==
  /\ running
  /\ readyState[ws] = "CONNECTING"
  /\ \A other \in Conns : other < ws => readyState[other] # "CONNECTING"
  /\ IF Falsy(c)
     THEN \* ws.close(); return: no listener keeps the handler's closure
          /\ readyState' = [readyState EXCEPT ![ws] = "CLOSING"]
          /\ UNCHANGED <<clients, code, listening>>
     ELSE /\ readyState' = [readyState EXCEPT ![ws] = "OPEN"]
          /\ clients' = Register(clients, c, ws)
          /\ code' = [code EXCEPT ![ws] = c]
          /\ listening' = [listening EXCEPT ![ws] = TRUE]
  /\ UNCHANGED <<running, seq, delivered>>
  /\ UNCHANGED <<storeVars, clientVars, pageVars, retryVars>>

(***************************************************************************)
(* An uncaught exception thrown by a listener ends the process: every      *)
(* socket of the process is gone and so are the registry and localRooms.   *)
(***************************************************************************)
Crash ==
  /\ running' = FALSE
  /\ clients' = EmptyMap
  /\ localRooms' = NoRooms
  /\ readyState' = [ws \in Conns |->
       IF readyState[ws] = "CONNECTING" THEN "CONNECTING" ELSE "CLOSED"]
  /\ delivered' = [ws \in Conns |-> <<>>]

(***************************************************************************)
(* A message frame arrives on socket ws.  A socket the broker refused      *)
(* (closing, no listener) may still be sending; nobody listens to it.      *)
(***************************************************************************)
Message(ws, text) ==
  /\ running
  /\ seq < MaxSent
  /\ \/ readyState[ws] = "OPEN"
     \/ ~listening[ws] /\ readyState[ws] = "CLOSING"
  /\ seq' = seq + 1
  /\ IF ~listening[ws]
     THEN UNCHANGED <<running, clients, readyState, delivered, localRooms>>
     ELSE LET data == ParsedData[text] IN
       IF data = SyntaxError
       THEN \* JSON.parse throws out of the listener
            Crash
       ELSE /\ delivered' = [client \in Conns |->
                 IF client \in Recipients(clients, code[ws], ws)
                 THEN Send(delivered[client],
                           [from |-> ws, seq |-> seq + 1, data |-> FrameData[text]])
                 ELSE delivered[client]]
            /\ UNCHANGED <<running, clients, readyState, localRooms>>
  /\ UNCHANGED <<code, listening>>
  /\ UNCHANGED <<variant, mongo, db, logged, resp, ttl>>
  /\ UNCHANGED <<clientVars, pageVars, retryVars>>

(***************************************************************************)
(* The peer starts closing (close frame or transport error): the socket    *)
(* leaves OPEN before its close event is dispatched.                       *)
(***************************************************************************)
PeerClosing(ws) ==
  /\ running
  /\ readyState[ws] = "OPEN"
  /\ readyState' = [readyState EXCEPT ![ws] = "CLOSING"]
  /\ UNCHANGED <<running, clients, code, listening, seq, delivered>>
  /\ UNCHANGED <<storeVars, clientVars, pageVars, retryVars>>

(***************************************************************************)
(* ws.on("close")                                                          *)
(***************************************************************************)
Close(ws) ==
  /\ running
  /\ readyState[ws] \in {"OPEN", "CLOSING"}
  /\ readyState' = [readyState EXCEPT ![ws] = "CLOSED"]
  /\ clients' = IF listening[ws] THEN Unregister(clients, code[ws], ws) ELSE clients
  /\ delivered' = [delivered EXCEPT ![ws] = <<>>]
  /\ UNCHANGED <<running, code, listening, seq>>
  /\ UNCHANGED <<storeVars, clientVars, pageVars, retryVars>>

Next ==
  \/ \E ws \in Conns, c \in HandshakeCodes : Connection(ws, c)
  \/ \E ws \in Conns, text \in Payloads : Message(ws, text)
  \/ \E ws \in Conns : PeerClosing(ws)
  \/ \E ws \in Conns : Close(ws)

Spec == Init /\ [][Next]_vars

(***************************************************************************)
(* The room API                                                            *)
(***************************************************************************)
\* mongoose.connection.readyState === 1
Connected == mongo = "connected"

\* Room.findOne({ code }): the document of exactly that code, or null
FindOne(coll, c) == IF c \in DOMAIN coll THEN coll[c] ELSE NoRoom

\* localRooms.get(code): the object of exactly that key, or undefined
MapGet(map, c) == IF c \in DOMAIN map THEN map[c] ELSE NoRoom

\* localRooms.set(code, room)
MapSet(map, c, room) ==
  [k \in DOMAIN map \cup {c} |-> IF k = c THEN room ELSE map[k]]

\* mutant: the update writes the mode of the room as well
SetDataAndMode(room, d) == [room EXCEPT !.data = d, !.mode = "SINGLE"]

\* { data } applied to a room: Room.findOneAndUpdate / room.data = data
SetData(room, d) == [room EXCEPT !.data = d]

\* mutant: the update inserts the room when there is none
UpdateOneUpsert(coll, c, d) ==
  IF c \in DOMAIN coll THEN MapSet(coll, c, SetData(coll[c], d))
  ELSE MapSet(coll, c, RoomDoc(c, Null, d))

\* Room.findOneAndUpdate({ code }, { data }) without upsert, and
\* `if (room) { room.data = data; localRooms.set(code, room) }`
UpdateOne(coll, c, d) ==
  IF c \in DOMAIN coll THEN MapSet(coll, c, SetData(coll[c], d)) ELSE coll

\* res.json(room) of a mongoose document: toJSON of a schema without options
ToJSON(room) == [room EXCEPT !.data = Minimize(@)]

\* the request and the response of a handler, with the request it follows
Response(op, c, m, d, status, room, served) ==
  [op |-> op, code |-> c, mode |-> m, data |-> d,
   status |-> status, room |-> room, served |-> served,
   prev |-> [op |-> resp.op, code |-> resp.code, mode |-> resp.mode,
             data |-> resp.data, status |-> resp.status]]

\* app.post("/api/rooms"): what the handler does to the store and the
\* response it sends
PostRoom(c, m, d) ==
  /\ running
  /\ IF Connected
     THEN IF c \in DOMAIN db
          THEN \* save() rejects: the unique index on code; catch, 500
               /\ logged' = logged \cup {"error: create"}
               /\ resp' = Response("create", c, m, d, 500, NoRoom, "mongo")
               /\ UNCHANGED <<db, localRooms, ttl>>
          ELSE /\ db' = MapSet(db, c, RoomDoc(c, m, SavedData[d]))
               /\ ttl' = MapSet(ttl, c, Fresh)
               /\ resp' = Response("create", c, m, d, 200, NoRoom, "mongo")
               /\ UNCHANGED <<localRooms, logged>>
     ELSE IF variant = "fallback"
          THEN /\ localRooms' = MapSet(localRooms, c, RoomDoc(c, m, d))
               /\ resp' = Response("create", c, m, d, 200, NoRoom, "local")
               /\ UNCHANGED <<db, logged, ttl>>
          ELSE \* save() rejects: no connection; catch, 500
               /\ logged' = logged \cup {"error: create"}
               /\ resp' = Response("create", c, m, d, 500, NoRoom, "none")
               /\ UNCHANGED <<db, localRooms, ttl>>
  /\ UNCHANGED <<variant, mongo>>

\* a POST /api/rooms of a client that is not modelled further
ApiCreate(c, m, d) ==
  /\ PostRoom(c, m, d)
  /\ UNCHANGED <<vars, clientVars, pageVars, retryVars>>

\* app.get("/api/rooms/:code")
ApiRead(c) ==
  /\ running
  /\ IF Connected \/ variant = "fallback"
     THEN LET room == IF Connected THEN FindOne(db, c) ELSE MapGet(localRooms, c) IN
          resp' = Response("read", c, Null, Undefined,
                           IF room # NoRoom THEN 200 ELSE 404,
                           IF Connected /\ room # NoRoom THEN ToJSON(room) ELSE room,
                           IF Connected THEN "mongo" ELSE "local")
     ELSE \* findOne rejects: no connection; catch, 500
          resp' = Response("read", c, Null, Undefined, 500, NoRoom, "none")
  /\ UNCHANGED <<variant, mongo, db, localRooms, logged, ttl>>
  /\ UNCHANGED <<vars, clientVars, pageVars, retryVars>>

\* app.put("/api/rooms/:code")
ApiUpdate(c, d) ==
  /\ running
  /\ IF Connected
     THEN /\ db' = UpdateOne(db, c, d)
          /\ ttl' = IF c \in DOMAIN db THEN MapSet(ttl, c, Touch(variant, ttl[c])) ELSE ttl
          /\ resp' = Response("update", c, Null, d, 200, NoRoom, "mongo")
          /\ UNCHANGED localRooms
     ELSE IF variant = "fallback"
          THEN /\ localRooms' = UpdateOne(localRooms, c, d)
               /\ resp' = Response("update", c, Null, d, 200, NoRoom, "local")
               /\ UNCHANGED <<db, ttl>>
          ELSE \* findOneAndUpdate rejects: no connection; catch, 500
               /\ resp' = Response("update", c, Null, d, 500, NoRoom, "none")
               /\ UNCHANGED <<db, localRooms, ttl>>
  /\ UNCHANGED <<variant, mongo, logged>>
  /\ UNCHANGED <<vars, clientVars, pageVars, retryVars>>

\* the connection to the database is lost after it had been established
MongoDisconnect ==
  /\ running
  /\ mongo = "connected"
  /\ mongo' = "disconnected"
  /\ resp' = NoResponse
  /\ UNCHANGED <<variant, db, localRooms, logged, ttl>>
  /\ UNCHANGED <<vars, clientVars, pageVars, retryVars>>

\* the driver re-establishes a connection that had been established
MongoReconnect ==
  /\ running
  /\ mongo = "disconnected"
  /\ mongo' = "connected"
  /\ resp' = NoResponse
  /\ UNCHANGED <<variant, db, localRooms, logged, ttl>>
  /\ UNCHANGED <<vars, clientVars, pageVars, retryVars>>

\* the process is replaced by a new one: startServer runs again, the
\* collection is what it was
Restart(m) ==
  /\ running
  /\ mongo' = m
  /\ localRooms' = NoRooms
  /\ logged' = {StartupLog(m)}
  /\ resp' = NoResponse
  /\ UNCHANGED <<variant, db, ttl>>
  /\ UNCHANGED <<vars, clientVars, pageVars, retryVars>>

StoreInit ==
  /\ RelayInit
  /\ ClientStart
  /\ PageStart
  /\ RetryStart(1)
  /\ \E v \in Variants, m \in StartupStates : StoreStart(v, m)

StoreNext ==
  \/ \E c \in RoomCodes, m \in Modes, d \in Datas : ApiCreate(c, m, d)
  \/ \E c \in RoomCodes : ApiRead(c)
  \/ \E c \in RoomCodes, d \in Datas : ApiUpdate(c, d)
  \/ MongoDisconnect
  \/ MongoReconnect
  \/ \E m \in StartupStates : Restart(m)

StoreSpec == StoreInit /\ [][StoreNext]_<<vars, storeVars>>

(***************************************************************************)
(* The rooms collection over time                                          *)
(***************************************************************************)
\* the time that passes in one step of the clock: a day less than the window
Elapse == ExpireAfterSeconds(variant) - Day

\* time passes for every document of the collection
Tick ==
  /\ DOMAIN db # {}
  /\ \E c \in DOMAIN db : ttl[c].age < ExpireAfterSeconds(variant)
  /\ ttl' = [c \in DOMAIN ttl |-> Later(variant, ttl[c], Elapse)]
  /\ resp' = NoResponse
  /\ UNCHANGED <<variant, mongo, db, localRooms, logged>>
  /\ UNCHANGED <<vars, clientVars, pageVars, retryVars>>

\* the event of the database removing the document of code c
Expired(c) == [NoResponse EXCEPT !.op = "expire", !.code = c]

\* the TTL monitor of the database removes a document whose createdAt is
\* expireAfterSeconds old
Expire(c) ==
  /\ c \in DOMAIN db
  /\ ttl[c].age >= ExpireAfterSeconds(variant)
  /\ db' = [k \in DOMAIN db \ {c} |-> db[k]]
  /\ ttl' = [k \in DOMAIN ttl \ {c} |-> ttl[k]]
  /\ resp' = Expired(c)
  /\ UNCHANGED <<variant, mongo, localRooms, logged>>
  /\ UNCHANGED <<vars, clientVars, pageVars, retryVars>>

\* the rooms of one game: one mode, the data of an edited room
ExpiryNext ==
  \/ \E c \in RoomCodes : ApiCreate(c, "COOP", DataEdited)
  \/ \E c \in RoomCodes : ApiRead(c)
  \/ \E c \in RoomCodes : ApiUpdate(c, DataEdited)
  \/ MongoDisconnect
  \/ MongoReconnect
  \/ Tick
  \/ \E c \in RoomCodes : Expire(c)

ExpirySpec == StoreInit /\ [][ExpiryNext]_<<vars, storeVars>>

(***************************************************************************)
(* Vocabulary of the properties                                            *)
(***************************************************************************)
\* the room ws is registered under, as a set (empty when unregistered)
RoomsOf(ws) == {c \in DOMAIN clients : ws \in clients[c]}
Registered(ws) == RoomsOf(ws) # {}

\* ACTIVE: accepted by the connection handler and not yet closed
Active(ws) == listening[ws] /\ readyState[ws] = "OPEN"

\* a step that dispatches the message event of text on socket x is a
\* Message(x, text) step, and it alone advances seq; the text is JSON when
\* JSON.parse returns
WellFormed(text) == ParsedData[text] # SyntaxError

\* the step dispatches the close event of an accepted socket x
CloseStep(x) ==
  listening[x] /\ readyState[x] # "CLOSED" /\ readyState'[x] = "CLOSED" /\ running'

(***************************************************************************)
(* C1 - Room isolation: a frame queued on a socket was sent by a socket    *)
(* registered under the same room code, never by one of another code.      *)
(***************************************************************************)
RoomIsolation ==
  \A y \in Conns : \A i \in 1..Len(delivered[y]) :
    /\ ~Falsy(code[y])
    /\ code[delivered[y][i].from] = code[y]

\* a message was relayed while an open socket of another room was registered
RoomIsolationWitness ==
  \E y \in Conns, z \in Conns :
    /\ delivered[y] # <<>>
    /\ Active(z) /\ Registered(z)
    /\ code[z] # code[y]
    /\ delivered[z] = <<>>

(***************************************************************************)
(* C2 - Fan-out without echo: a well-formed message of an ACTIVE socket x  *)
(* is queued exactly once on every other socket registered under x's code  *)
(* and open at dispatch, and on no other socket, x included.               *)
(***************************************************************************)
FanOutWithoutEcho ==
  [][ \A x \in Conns, text \in Payloads :
        (seq' # seq /\ Active(x) /\ Message(x, text) /\ WellFormed(text)) =>
          \A y \in Conns :
            IF y # x /\ y \in UNION {clients[c] : c \in RoomsOf(x)} /\ readyState[y] = "OPEN"
            THEN /\ Len(delivered'[y]) = Len(delivered[y]) + 1
                 /\ SubSeq(delivered'[y], 1, Len(delivered[y])) = delivered[y]
                 /\ delivered'[y][Len(delivered'[y])].from = x
                 /\ delivered'[y][Len(delivered'[y])].seq = seq'
            ELSE delivered'[y] = delivered[y] ]_vars

\* one message of x reached both of its two room peers and not x itself
FanOutWitness ==
  \E x \in Conns, y \in Conns, z \in Conns :
    /\ y # z /\ x # y /\ x # z
    /\ \E i \in 1..Len(delivered[y]), j \in 1..Len(delivered[z]) :
         /\ delivered[y][i].from = x /\ delivered[z][j].from = x
         /\ delivered[y][i].seq = delivered[z][j].seq
    /\ Active(x) /\ delivered[x] = <<>>

(***************************************************************************)
(* C3 - Malformed message handling: an unparseable message of an ACTIVE    *)
(* socket is queued on nobody, the sender stays open and registered, and   *)
(* the registry is unchanged.                                              *)
(***************************************************************************)
MalformedMessageDropped ==
  [][ \A x \in Conns, text \in Payloads :
        (seq' # seq /\ Active(x) /\ Message(x, text) /\ ~WellFormed(text)) =>
          /\ \A y \in Conns : Len(delivered'[y]) <= Len(delivered[y])
          /\ readyState'[x] = "OPEN"
          /\ clients' = clients ]_vars

(***************************************************************************)
(* C4 - Fault isolation: an error raised while handling one socket's       *)
(* message leaves the sockets of every other room open and registered.     *)
(***************************************************************************)
FaultIsolation ==
  [][ \A x \in Conns, text \in Payloads :
        (seq' # seq /\ Active(x) /\ Message(x, text) /\ ~WellFormed(text)) =>
          \A y \in Conns :
            (Active(y) /\ code[y] # code[x]) =>
              /\ readyState'[y] = "OPEN"
              /\ code[y] \in DOMAIN clients'
              /\ clients'[code[y]] = clients[code[y]] ]_vars

(***************************************************************************)
(* C5 - Missing room code: a socket is accepted only with a non-empty      *)
(* code; a socket whose handshake has no code, or an empty one, is closing *)
(* or closed, is in no registry set, has no listener, has had no message   *)
(* forwarded and has received none.                                        *)
(***************************************************************************)
MissingRoomCodeRefused ==
  /\ \A c \in DOMAIN clients : c # Null /\ c # ""
  /\ \A ws \in Conns :
       readyState[ws] # "CONNECTING" =>
         \/ code[ws] # Null /\ code[ws] # ""
         \/ /\ readyState[ws] \in {"CLOSING", "CLOSED"}
            /\ ~listening[ws]
            /\ ~Registered(ws)
            /\ delivered[ws] = <<>>
            /\ \A y \in Conns : \A i \in 1..Len(delivered[y]) : delivered[y][i].from # ws

\* messages were dispatched after a socket was refused: one of them relayed
\* from an ACTIVE socket to its peer, the other one not
MissingRoomCodeWitness ==
  \E ws \in Conns, x \in Conns, y \in Conns :
    /\ ws < x /\ ws < y
    /\ readyState[ws] = "CLOSING" /\ ~listening[ws]
    /\ Active(x) /\ Active(y)
    /\ seq = 2 /\ Len(delivered[y]) = 1 /\ delivered[y][1].from = x
    /\ delivered[x] = <<>>

(***************************************************************************)
(* C6 - Verbatim forwarding: the frame queued on each recipient of a       *)
(* relayed message equals the text the sender sent.                        *)
(***************************************************************************)
VerbatimForwarding ==
  [][ \A x \in Conns, text \in Payloads :
        (seq' # seq /\ Message(x, text)) =>
          \A y \in Conns :
            Len(delivered'[y]) > Len(delivered[y]) =>
              delivered'[y][Len(delivered'[y])].data = text ]_vars

(***************************************************************************)
(* C7 - Per-sender ordering: the frames of one sender stand on each        *)
(* recipient's queue in the order they were sent: a later message of x is  *)
(* queued behind every frame an open recipient already holds, x's earlier  *)
(* frames included, and carries a higher sequence number than they do.     *)
(***************************************************************************)
PerSenderOrdering ==
  [][ \A x \in Conns, text \in Payloads :
        (seq' # seq /\ Active(x) /\ Message(x, text) /\ WellFormed(text)) =>
          \A y \in Conns :
            (Active(y) /\ \E i \in 1..Len(delivered[y]) : delivered[y][i].from = x) =>
              /\ Len(delivered'[y]) = Len(delivered[y]) + 1
              /\ \A i \in 1..Len(delivered[y]) :
                   /\ delivered'[y][i] = delivered[y][i]
                   /\ delivered[y][i].from = x =>
                        delivered[y][i].seq < delivered'[y][Len(delivered'[y])].seq
              /\ delivered'[y][Len(delivered'[y])].from = x ]_vars

\* y holds two frames of one sender
PerSenderOrderingWitness ==
  \E y \in Conns : \E i \in 1..Len(delivered[y]), j \in 1..Len(delivered[y]) :
    i < j /\ delivered[y][i].from = delivered[y][j].from /\ Active(y)

(***************************************************************************)
(* C8 - Close handling: the close event of a registered socket x of room c *)
(* removes x from the set of c, deletes the entry of c if the set became   *)
(* empty, and leaves the sets of all other codes unchanged.                *)
(***************************************************************************)
CloseHandling ==
  [][ \A x \in Conns : (CloseStep(x) /\ Registered(x)) =>
        LET c == code[x] IN
        /\ IF clients[c] = {x}
           THEN c \notin DOMAIN clients'
           ELSE c \in DOMAIN clients' /\ clients'[c] = clients[c] \ {x}
        /\ DOMAIN clients' \ {c} = DOMAIN clients \ {c}
        /\ \A k \in DOMAIN clients \ {c} : clients'[k] = clients[k] ]_vars

\* x was closed, a peer of its room and a socket of another room remain
CloseHandlingWitness ==
  \E x \in Conns, y \in Conns, z \in Conns :
    /\ running /\ listening[x] /\ readyState[x] = "CLOSED"
    /\ Registered(y) /\ code[y] = code[x]
    /\ Registered(z) /\ code[z] # code[x]

(***************************************************************************)
(* C9 - No empty registry entries: every code in the registry maps to a    *)
(* non-empty set, and a code is in the registry only while a socket        *)
(* accepted under it has not been closed.                                  *)
(***************************************************************************)
NoEmptyRegistryEntries ==
  \A c \in DOMAIN clients :
    /\ clients[c] # {}
    /\ \E ws \in Conns : listening[ws] /\ code[ws] = c /\ readyState[ws] # "CLOSED"

\* the only socket of a room was closed and its entry is gone, another room lives on
NoEmptyRegistryEntriesWitness ==
  \E x \in Conns, z \in Conns :
    /\ running /\ listening[x] /\ readyState[x] = "CLOSED"
    /\ code[x] \notin DOMAIN clients
    /\ Registered(z)

(***************************************************************************)
(* C10 - No residual membership: when y registers under a code whose       *)
(* earlier sockets have all been closed, the set of that code is exactly   *)
(* {y}; and a closed socket is never sent anything again.                  *)
(***************************************************************************)
NoResidualMembership ==
  [][ /\ \A y \in Conns :
           ( /\ readyState[y] = "CONNECTING" /\ readyState'[y] = "OPEN"
             /\ \A x \in Conns \ {y} : code[x] = code'[y] => readyState[x] = "CLOSED" ) =>
             /\ code'[y] \in DOMAIN clients'
             /\ clients'[code'[y]] = {y}
      /\ \A x \in Conns : readyState[x] = "CLOSED" => delivered'[x] = delivered[x] ]_vars

\* y re-opened an emptied room, was joined by z, and its message reached z only
NoResidualMembershipWitness ==
  \E x \in Conns, y \in Conns, z \in Conns :
    /\ x < y /\ y < z
    /\ code[x] = code[y] /\ code[z] = code[y]
    /\ listening[x] /\ readyState[x] = "CLOSED"
    /\ Active(y) /\ Active(z)
    /\ \E i \in 1..Len(delivered[z]) : delivered[z][i].from = y
    /\ delivered[x] = <<>>

(***************************************************************************)
(* The connection states of the design: CONNECTING until the connection    *)
(* handler has run, ACTIVE from acceptance until the close event, CLOSED   *)
(* once refused or closed.                                                 *)
(***************************************************************************)
Phase(ws) ==
  IF readyState[ws] = "CONNECTING" THEN "CONNECTING"
  ELSE IF listening[ws] /\ readyState[ws] # "CLOSED" THEN "ACTIVE"
  ELSE "CLOSED"

(***************************************************************************)
(* C11 - Connection state machine: a socket moves only CONNECTING ->       *)
(* ACTIVE (code present), CONNECTING -> CLOSED (code absent) and ACTIVE -> *)
(* CLOSED; a CLOSED socket stays CLOSED, is never registered again and     *)
(* neither sends nor receives a relayed message; and an ACTIVE socket      *)
(* becomes CLOSED only by its own close event, never by the broker.        *)
(***************************************************************************)
ConnectionStateMachine ==
  [][ \A ws \in Conns :
        /\ Phase(ws)' # Phase(ws) =>
             \/ /\ Phase(ws) = "CONNECTING" /\ Phase(ws)' = "ACTIVE"
                /\ \E c \in RoomCodes : Connection(ws, c)
             \/ /\ Phase(ws) = "CONNECTING" /\ Phase(ws)' = "CLOSED"
                /\ Connection(ws, Null) \/ Connection(ws, "")
             \/ /\ Phase(ws) = "ACTIVE" /\ Phase(ws)' = "CLOSED"
                /\ Close(ws)
        /\ Phase(ws) = "CLOSED" =>
             /\ ~Registered(ws)'
             /\ delivered'[ws] = <<>>
             /\ \A y \in Conns : \A i \in 1..Len(delivered'[y]) :
                  delivered'[y][i].from = ws => i <= Len(delivered[y]) ]_vars

(***************************************************************************)
(* C12 - Single, fixed room tag: a registered socket is a member of the    *)
(* set of exactly one code, the code of its handshake, and stays a member  *)
(* of that set and of no other for as long as it is registered; a socket   *)
(* is registered by its connection event only.                             *)
(***************************************************************************)
SingleFixedRoomTag ==
  [][ /\ \A ws \in Conns, c \in RoomCodes :
           Connection(ws, c) => RoomsOf(ws)' = {c}
      /\ \A ws \in Conns :
           /\ Registered(ws)' => RoomsOf(ws)' = {code'[ws]}
           /\ (Registered(ws) /\ Registered(ws)') => RoomsOf(ws)' = RoomsOf(ws)
           /\ (~Registered(ws) /\ Registered(ws)') => readyState[ws] = "CONNECTING" ]_vars

\* sockets are registered under both codes after messages and a close
SingleFixedRoomTagWitness ==
  \E x \in Conns, y \in Conns, z \in Conns :
    /\ RoomsOf(x) = {"ab12cd"} /\ RoomsOf(y) = {"AB12CD"}
    /\ listening[z] /\ readyState[z] = "CLOSED"
    /\ seq = MaxSent

(***************************************************************************)
(* C13 - Skip-on-closed: in a broadcast a registered peer that is not open *)
(* is sent nothing, no error is raised, every open peer is still sent the  *)
(* message, and the registry keeps the peer that is not open.              *)
(***************************************************************************)
SkipOnClosed ==
  [][ \A x \in Conns, text \in Payloads :
        (seq' # seq /\ Active(x) /\ Message(x, text) /\ WellFormed(text)) =>
          /\ running'
          /\ clients' = clients
          /\ readyState' = readyState
          /\ \A y \in clients[code[x]] \ {x} :
               IF readyState[y] = "OPEN"
               THEN Len(delivered'[y]) = Len(delivered[y]) + 1
               ELSE delivered'[y] = delivered[y] ]_vars

\* z was sent a message of x that the closing peer y, registered before z,
\* was not sent; y is still registered
SkipOnClosedWitness ==
  \E x \in Conns, y \in Conns, z \in Conns :
    /\ x # y /\ x # z /\ y < z
    /\ code[x] = code[y] /\ code[z] = code[y]
    /\ Active(x) /\ Active(z)
    /\ \E i \in 1..Len(delivered[z]) : delivered[z][i].from = x
    /\ readyState[y] = "CLOSING" /\ Registered(y)
    /\ delivered[y] = <<>>

(***************************************************************************)
(* The server process: the broker and the room API of one process, the     *)
(* fallback variant started without MONGODB_URI, for the requests of one   *)
(* room.                                                                   *)
(***************************************************************************)
ServerNext ==
  \/ Next
  \/ ApiCreate("AB12CD", "COOP", DataEdited)
  \/ ApiRead("AB12CD")
  \/ ApiUpdate("AB12CD", DataInitial)

ServerSpec == Init /\ [][ServerNext]_<<vars, storeVars>>

(***************************************************************************)
(* The handlers of App.tsx, against a Snapshot API that answers every      *)
(* request from the rooms collection                                       *)
(***************************************************************************)
\* the room is full for player p: the two alerts of joinRoom
RoomFull(room, p) ==
  \/ room.mode = "SINGLE" /\ Cardinality(room.data.players) >= 1
       /\ p \notin room.data.players
  \/ room.mode = "COOP" /\ Cardinality(room.data.players) >= 2
       /\ p \notin room.data.players

\* socket.onmessage of a peer, for each type of message
OnMessage(d, type, payload) ==
  IF type = "SYNC_STATE" THEN payload
  ELSE IF type = "SYNC_NOTES" THEN [d EXCEPT !.notes = payload]
  ELSE IF type = "SYNC_CHAT" THEN [d EXCEPT !.chat = @ \cup {payload}]
  ELSE [d EXCEPT !.verdict = payload]

\* broadcast(type, payload) by p, applied to the apps as a has them: sent if
\* the socket of p is open, and relayed to every other open socket
Broadcast(a, p, type, payload) ==
  [q \in Players |->
     IF q # p /\ a[p].open /\ a[q].open
     THEN [a[q] EXCEPT !.data = OnMessage(@, type, payload)]
     ELSE a[q]]

\* PUT /api/rooms/:code { data }
Put(d) == [snapshot EXCEPT !.data = d]

\* createRoom(mode) of player p
CreateRoom(p, m) ==
  /\ snapshot = NoSnapshot
  /\ app[p].stage = "START" /\ app[p].pc = "idle"
  /\ LET initialData == RoomData({p}, "", {}, Null) IN
       /\ snapshot' = [mode |-> m, data |-> initialData]
       /\ app' = [app EXCEPT ![p].stage = "BRIEFING", ![p].data = initialData]
  /\ UNCHANGED <<live, acts>>
  /\ UNCHANGED <<vars, storeVars, pageVars, retryVars>>

\* joinRoom of player p up to the first await after the GET: the room is
\* read and tested
JoinRead(p) ==
  /\ snapshot # NoSnapshot
  /\ app[p].stage = "START" /\ app[p].pc = "idle"
  /\ IF RoomFull(snapshot, p)
     THEN UNCHANGED app
     ELSE app' = [app EXCEPT ![p].pc = "joining", ![p].closure = snapshot.data]
  /\ UNCHANGED <<snapshot, live, acts>>
  /\ UNCHANGED <<vars, storeVars, pageVars, retryVars>>

\* the rest of joinRoom: the PUT of the room that was read with p added
JoinWrite(p) ==
  /\ app[p].pc = "joining"
  /\ LET room == app[p].closure
         updatedData == [room EXCEPT !.players = @ \cup {p}] IN
       /\ snapshot' = Put(updatedData)
       /\ app' = Broadcast([app EXCEPT ![p].stage = "BRIEFING",
                                       ![p].data = updatedData,
                                       ![p].pc = "idle"],
                           p, "SYNC_STATE", updatedData)
  /\ UNCHANGED <<live, acts>>
  /\ UNCHANGED <<vars, storeVars, pageVars, retryVars>>

\* the WebSocket of the useEffect on investigation.code is open
SocketOpen(p) ==
  /\ app[p].stage = "BRIEFING"
  /\ ~app[p].open
  /\ app' = [app EXCEPT ![p].open = TRUE]
  /\ UNCHANGED <<snapshot, live, acts>>
  /\ UNCHANGED <<vars, storeVars, pageVars, retryVars>>

\* updateNotes(newNotes) of player p
UpdateNotes(p, n) ==
  /\ acts < MaxActs
  /\ app[p].stage = "BRIEFING" /\ app[p].pc = "idle"
  /\ app' = Broadcast([app EXCEPT ![p].data.notes = n], p, "SYNC_NOTES", n)
  /\ snapshot' = Put([app[p].data EXCEPT !.notes = n])
  /\ live' = IF app[p].open THEN [live EXCEPT !.notes = n] ELSE live
  /\ acts' = acts + 1
  /\ UNCHANGED <<vars, storeVars, pageVars, retryVars>>

\* handleSendMessage of player p up to `await interrogateSuspect`
SendMessage(p) ==
  /\ acts < MaxActs
  /\ app[p].stage = "BRIEFING" /\ app[p].pc = "idle"
  /\ LET newUserMessage == <<"user", p, acts>> IN
       /\ app' = Broadcast([app EXCEPT ![p].data.chat = @ \cup {newUserMessage},
                                       ![p].closure = app[p].data,
                                       ![p].pc = "asking"],
                           p, "SYNC_CHAT", newUserMessage)
       /\ live' = IF app[p].open
                  THEN [live EXCEPT !.chat = @ \cup {newUserMessage}] ELSE live
  /\ acts' = acts + 1
  /\ UNCHANGED snapshot
  /\ UNCHANGED <<vars, storeVars, pageVars, retryVars>>

\* interrogateSuspect has answered: the rest of the try block
Answered(p) ==
  /\ app[p].pc = "asking"
  /\ \E k \in 0..MaxActs :
       LET newUserMessage == <<"user", p, k>>
           modelMessage == <<"model", p, k>>
           finalHistory == app[p].closure.chat \cup {newUserMessage, modelMessage} IN
         /\ newUserMessage \in app[p].data.chat
         /\ newUserMessage \notin app[p].closure.chat
         /\ app' = Broadcast([app EXCEPT ![p].data.chat = finalHistory,
                                         ![p].pc = "idle"],
                             p, "SYNC_CHAT", modelMessage)
         /\ snapshot' = Put([app[p].closure EXCEPT !.chat = finalHistory])
         /\ live' = IF app[p].open
                    THEN [live EXCEPT !.chat = @ \cup {modelMessage}] ELSE live
  /\ UNCHANGED acts
  /\ UNCHANGED <<vars, storeVars, pageVars, retryVars>>

\* interrogateSuspect has thrown: the catch block logs, nothing is written
InterrogationFailed(p) ==
  /\ app[p].pc = "asking"
  /\ app' = [app EXCEPT ![p].pc = "idle"]
  /\ UNCHANGED <<snapshot, live, acts>>
  /\ UNCHANGED <<vars, storeVars, pageVars, retryVars>>

\* handleAccuse of player p up to `await evaluateAccusation`
Accuse(p) ==
  /\ acts < MaxActs
  /\ app[p].stage = "BRIEFING" /\ app[p].pc = "idle"
  /\ app' = [app EXCEPT ![p].closure = app[p].data, ![p].pc = "accusing"]
  /\ acts' = acts + 1
  /\ UNCHANGED <<snapshot, live>>
  /\ UNCHANGED <<vars, storeVars, pageVars, retryVars>>

\* evaluateAccusation has answered: the rest of the try block
Evaluated(p) ==
  /\ app[p].pc = "accusing"
  /\ app' = Broadcast([app EXCEPT ![p].data.verdict = p, ![p].pc = "idle"],
                      p, "SYNC_ACCUSATION", p)
  /\ snapshot' = Put([app[p].closure EXCEPT !.verdict = p])
  /\ live' = IF app[p].open THEN [live EXCEPT !.verdict = p] ELSE live
  /\ UNCHANGED acts
  /\ UNCHANGED <<vars, storeVars, pageVars, retryVars>>

\* evaluateAccusation has thrown: the catch block logs, nothing is written
EvaluationFailed(p) ==
  /\ app[p].pc = "accusing"
  /\ app' = [app EXCEPT ![p].pc = "idle"]
  /\ UNCHANGED <<snapshot, live, acts>>
  /\ UNCHANGED <<vars, storeVars, pageVars, retryVars>>

ClientInit ==
  /\ RelayInit /\ StoreStart("fallback", "connected") /\ ClientStart
  /\ PageStart /\ RetryStart(1)

ClientNext ==
  \/ \E m \in Modes : CreateRoom("p1", m)
  \/ \E p \in Players : JoinRead(p)
  \/ \E p \in Players : JoinWrite(p)
  \/ \E p \in Players : SocketOpen(p)
  \/ \E p \in Players : UpdateNotes(p, p)
  \/ \E p \in Players : SendMessage(p)
  \/ \E p \in Players : Answered(p)
  \/ \E p \in Players : InterrogationFailed(p)
  \/ \E p \in Players : Accuse(p)
  \/ \E p \in Players : Evaluated(p)
  \/ \E p \in Players : EvaluationFailed(p)

ClientSpec == ClientInit /\ [][ClientNext]_clientVars

(***************************************************************************)
(* createRoom and the WebSocket effect of one page, against the room API   *)
(***************************************************************************)
\* generateRoomCode(): six characters of base 36, in upper case
GeneratedCodes == {"AB12CD", "Q7W8E9"}

\* a socket the effect has created
Socket(c, state) == [code |-> c, readyState |-> state]

\* close() has not been called on the socket and its connection has not ended
InUse(s) == s.readyState \in {"CONNECTING", "OPEN"}

\* socket.close(): the closing handshake starts
CloseSocket(s) == IF InUse(s) THEN [s EXCEPT !.readyState = "CLOSING"] ELSE s

\* createRoom(mode) up to `await generateCase()`
CreateRoomStart(m) ==
  /\ gameState = "START" /\ generated = Null
  /\ Len(sockets) < MaxSockets
  /\ gameState' = "GENERATING"
  /\ generated' = m
  /\ UNCHANGED <<investigation, deps, sockets, handled>>
  /\ UNCHANGED <<vars, storeVars, clientVars, retryVars>>

\* generateCase() has thrown: the catch block
CaseFailed ==
  /\ gameState = "GENERATING" /\ generated # Null
  /\ gameState' = "START"
  /\ generated' = Null
  /\ UNCHANGED <<investigation, deps, sockets, handled>>
  /\ UNCHANGED <<vars, storeVars, clientVars, retryVars>>

\* generateCase() has answered, the room of a generated code c is posted and
\* the fetch resolves with the response of the server, whatever its status:
\* setInvestigation, setGameState(BRIEFING)
RoomPosted(c) ==
  /\ gameState = "GENERATING" /\ generated # Null
  /\ PostRoom(c, generated, DataInitial)
  /\ investigation' = [investigation EXCEPT !.code = c]
  /\ gameState' = "BRIEFING"
  /\ generated' = Null
  /\ UNCHANGED <<deps, sockets, handled>>
  /\ UNCHANGED <<vars, clientVars, retryVars>>

\* generateCase() has answered and the fetch of the POST rejects (the server
\* is not reached): the catch block
PostRejected ==
  /\ gameState = "GENERATING" /\ generated # Null
  /\ gameState' = "START"
  /\ generated' = Null
  /\ UNCHANGED <<investigation, deps, sockets, handled>>
  /\ UNCHANGED <<vars, storeVars, clientVars, retryVars>>

\* the player goes through the case to its evaluation
Played ==
  /\ gameState = "BRIEFING"
  /\ gameState' = "EVALUATION"
  /\ UNCHANGED <<investigation, generated, deps, sockets, handled>>
  /\ UNCHANGED <<vars, storeVars, clientVars, retryVars>>

\* RETURN TO HEADQUARTERS: setGameState(START), the investigation is kept
ReturnToStart ==
  /\ gameState = "EVALUATION"
  /\ gameState' = "START"
  /\ UNCHANGED <<investigation, generated, deps, sockets, handled>>
  /\ UNCHANGED <<vars, storeVars, clientVars, retryVars>>

\* the effect on [investigation.code] runs after a render in which the code
\* differs: the cleanup of the previous run closes its socket, then a socket
\* is created for a non-empty code
RunEffect ==
  /\ deps # investigation.code
  /\ investigation.code = NoCode \/ Len(sockets) < MaxSockets
  /\ LET cleaned == IF deps # NoCode
                    THEN [sockets EXCEPT ![Len(sockets)] = CloseSocket(@)]
                    ELSE sockets IN
       sockets' = IF investigation.code # NoCode
                  THEN Append(cleaned, Socket(investigation.code, "CONNECTING"))
                  ELSE cleaned
  /\ deps' = investigation.code
  /\ UNCHANGED <<gameState, investigation, generated, handled>>
  /\ UNCHANGED <<vars, storeVars, clientVars, retryVars>>

\* the connection of socket i is established
SocketOpened(i) ==
  /\ i \in DOMAIN sockets
  /\ sockets[i].readyState = "CONNECTING"
  /\ sockets' = [sockets EXCEPT ![i].readyState = "OPEN"]
  /\ UNCHANGED <<gameState, investigation, generated, deps, handled>>
  /\ UNCHANGED <<vars, storeVars, clientVars, retryVars>>

\* the connection of socket i has ended
SocketClosed(i) ==
  /\ i \in DOMAIN sockets
  /\ sockets[i].readyState # "CLOSED"
  /\ sockets' = [sockets EXCEPT ![i].readyState = "CLOSED"]
  /\ UNCHANGED <<gameState, investigation, generated, deps, handled>>
  /\ UNCHANGED <<vars, storeVars, clientVars, retryVars>>

\* socket.onmessage of socket i for a SYNC_NOTES, SYNC_CHAT or
\* SYNC_ACCUSATION: the code of the investigation is kept
Receive(i) ==
  /\ i \in DOMAIN sockets
  /\ sockets[i].readyState = "OPEN"
  /\ handled' = [socket |-> sockets[i].code, code |-> investigation.code]
  /\ UNCHANGED <<gameState, investigation, generated, deps, sockets>>
  /\ UNCHANGED <<vars, storeVars, clientVars, retryVars>>

PageInit ==
  /\ RelayInit
  /\ ClientStart
  /\ \E v \in Variants, m \in StartupStates : StoreStart(v, m)
  /\ PageStart
  /\ RetryStart(1)

PageNext ==
  \/ \E m \in Modes : CreateRoomStart(m)
  \/ CaseFailed
  \/ \E c \in GeneratedCodes : RoomPosted(c)
  \/ PostRejected
  \/ Played
  \/ ReturnToStart
  \/ RunEffect
  \/ \E i \in 1..MaxSockets : SocketOpened(i)
  \/ \E i \in 1..MaxSockets : SocketClosed(i)
  \/ \E i \in 1..MaxSockets : Receive(i)
  \/ MongoDisconnect
  \/ MongoReconnect

PageSpec == PageInit /\ [][PageNext]_<<storeVars, pageVars>>

(***************************************************************************)
(* callWithRetry(fn), with fn settling in any of the three ways the loop   *)
(* tells apart                                                             *)
(***************************************************************************)
\* the key of `new GoogleGenAI({ apiKey })` in getAiInstance: the key at
\* currentKeyIndex, or process.env.GEMINI_API_KEY when there is none
KeyAt(index) == IF apiKeys = 0 THEN "env" ELSE index

\* getAiInstance(true): currentKeyIndex = (currentKeyIndex + 1) % length
Rotate(index) == (index + 1) % apiKeys

\* mutant: one more turn of the loop
ExhaustedLate(i) == i > MaxRetries

\* the loop condition `i < maxRetries` fails
Exhausted(i) == i >= MaxRetries

\* a call that has entered its loop: `let ai = getAiInstance()`, i = 0
NewCall ==
  [pc |-> "attempt", i |-> 0, key |-> KeyAt(currentKeyIndex),
   attempts |-> 0, lastError |-> Null]

\* callWithRetry is called
Call ==
  /\ Len(calls) < MaxCalls
  /\ calls' = Append(calls, NewCall)
  /\ UNCHANGED <<apiKeys, currentKeyIndex>>
  /\ UNCHANGED <<vars, storeVars, clientVars, pageVars>>

\* `return await fn(ai)`: fn resolves
Succeed(k) ==
  /\ k \in DOMAIN calls
  /\ calls[k].pc = "attempt"
  /\ calls' = [calls EXCEPT ![k].pc = "returned", ![k].attempts = @ + 1]
  /\ UNCHANGED <<apiKeys, currentKeyIndex>>
  /\ UNCHANGED <<vars, storeVars, clientVars, pageVars>>

\* fn rejects with an error that is not a rate limit: `throw error`
FailOther(k) ==
  /\ k \in DOMAIN calls
  /\ calls[k].pc = "attempt"
  /\ calls' = [calls EXCEPT ![k].pc = "thrown", ![k].attempts = @ + 1,
                            ![k].lastError = "other"]
  /\ UNCHANGED <<apiKeys, currentKeyIndex>>
  /\ UNCHANGED <<vars, storeVars, clientVars, pageVars>>

\* fn rejects with a rate limit error: with several keys the call rotates
\* and takes the key at the new index; then it awaits a timer
RateLimited(k) ==
  /\ k \in DOMAIN calls
  /\ calls[k].pc = "attempt"
  /\ IF apiKeys > 1
     THEN /\ currentKeyIndex' = Rotate(currentKeyIndex)
          /\ calls' = [calls EXCEPT ![k].pc = "wait", ![k].attempts = @ + 1,
                                    ![k].lastError = "429",
                                    ![k].key = KeyAt(Rotate(currentKeyIndex))]
     ELSE /\ calls' = [calls EXCEPT ![k].pc = "wait", ![k].attempts = @ + 1,
                                    ![k].lastError = "429"]
          /\ UNCHANGED currentKeyIndex
  /\ UNCHANGED apiKeys
  /\ UNCHANGED <<vars, storeVars, clientVars, pageVars>>

\* the timer fires: `continue`, i++, and `throw lastError` after the loop
Resume(k) ==
  /\ k \in DOMAIN calls
  /\ calls[k].pc = "wait"
  /\ calls' = [calls EXCEPT ![k].i = @ + 1,
                            ![k].pc = IF Exhausted(calls[k].i + 1)
                                      THEN "thrown" ELSE "attempt"]
  /\ UNCHANGED <<apiKeys, currentKeyIndex>>
  /\ UNCHANGED <<vars, storeVars, clientVars, pageVars>>

RetryInit ==
  /\ RelayInit
  /\ StoreStart("fallback", "unconfigured")
  /\ ClientStart
  /\ PageStart
  /\ \E n \in 0..MaxKeys : RetryStart(n)

\* a pending promise of some call settles
Settle ==
  \E k \in 1..MaxCalls : Succeed(k) \/ FailOther(k) \/ RateLimited(k) \/ Resume(k)

RetryNext ==
  \/ Call
  \/ \E k \in 1..MaxCalls : Succeed(k)
  \/ \E k \in 1..MaxCalls : FailOther(k)
  \/ \E k \in 1..MaxCalls : RateLimited(k)
  \/ \E k \in 1..MaxCalls : Resume(k)

\* every promise a call awaits settles: fn answers or fails, a timer fires
RetrySpec == RetryInit /\ [][RetryNext]_retryVars /\ WF_retryVars(Settle)

(***************************************************************************)
(* Vocabulary of the room API claims                                       *)
(***************************************************************************)
\* the store the handlers of the process use now
Serving ==
  IF Connected THEN "mongo" ELSE IF variant = "fallback" THEN "local" ELSE "none"

\* the room the serving store holds under exactly code c, if any
Stored(c) ==
  IF Connected THEN FindOne(db, c)
  ELSE IF variant = "fallback" THEN MapGet(localRooms, c) ELSE NoRoom

\* the latest request is an op2 that immediately follows an acknowledged
\* op1 for the same code
Follows(op1, op2) ==
  /\ resp.op = op2
  /\ resp.prev.op = op1
  /\ resp.prev.status = 200
  /\ resp.prev.code = resp.code

\* the console lines that report that the database is not in use
DegradedLogs == {StartupLog("unconfigured"), StartupLog("failed")}

(***************************************************************************)
(* C14 - Create/read round trip: a read that immediately follows a         *)
(* successful create of the same code returns a room whose mode and data   *)
(* equal the created ones.                                                 *)
(***************************************************************************)
CreateReadRoundTrip ==
  Follows("create", "read") =>
    /\ resp.status = 200
    /\ resp.room.mode = resp.prev.mode
    /\ resp.room.data = resp.prev.data

(***************************************************************************)
(* C15 - Update/read round trip: a read that immediately follows an        *)
(* acknowledged update of an existing room returns a room whose data is    *)
(* the data of the update.                                                 *)
(***************************************************************************)
UpdateReadRoundTrip ==
  (Follows("update", "read") /\ Stored(resp.code) # NoRoom) =>
    /\ resp.status = 200
    /\ resp.room.data = resp.prev.data

(***************************************************************************)
(* C16 - Duplicate create is rejected: a create for a code under which the *)
(* serving store, durable or in-memory, holds a room is answered with a    *)
(* failure and leaves the rooms as they were.                              *)
(***************************************************************************)
DuplicateCreateRejected ==
  [][ \A c \in RoomCodes, m \in Modes, d \in Datas :
        (ApiCreate(c, m, d) /\ Stored(c) # NoRoom) =>
          /\ resp'.status # 200
          /\ db' = db
          /\ localRooms' = localRooms ]_<<vars, storeVars>>

(***************************************************************************)
(* C17 - Update of a missing room reports NotFound: an update for a code   *)
(* under which the serving store holds no room is answered 404, never with *)
(* a success.                                                              *)
(***************************************************************************)
UpdateMissingNotFound ==
  (resp.op = "update" /\ Serving # "none" /\ Stored(resp.code) = NoRoom) =>
    resp.status = 404

(***************************************************************************)
(* C18 - Read of a missing room reports NotFound: a read returns the room  *)
(* stored under exactly its code when there is one, and 404 when there is  *)
(* none.                                                                   *)
(***************************************************************************)
ReadReportsNotFound ==
  resp.op = "read" =>
    IF Stored(resp.code) # NoRoom
    THEN /\ resp.status = 200
         /\ resp.room = Stored(resp.code)
         /\ resp.room.code = resp.code
    ELSE resp.status = 404

(***************************************************************************)
(* C19 - In-memory fallback: in a process whose database was unconfigured  *)
(* or unreachable at startup, create, read and update succeed against the  *)
(* in-memory rooms, the database is left alone, and the process that       *)
(* replaces it starts with no in-memory room.                              *)
(***************************************************************************)
InMemoryFallback ==
  [][ (mongo \in {"unconfigured", "failed"}) =>
      ( /\ \A c \in RoomCodes, m \in Modes, d \in Datas :
             ApiCreate(c, m, d) =>
               /\ resp'.status = 200
               /\ MapGet(localRooms', c) = RoomDoc(c, m, d)
        /\ \A c \in RoomCodes :
             ApiRead(c) =>
               IF c \in DOMAIN localRooms
               THEN resp'.status = 200 /\ resp'.room = localRooms[c]
               ELSE resp'.status = 404
        /\ \A c \in RoomCodes, d \in Datas :
             (ApiUpdate(c, d) /\ c \in DOMAIN localRooms) =>
               /\ resp'.status = 200
               /\ MapGet(localRooms', c) = SetData(localRooms[c], d)
        /\ \A m \in StartupStates :
             Restart(m) => localRooms' = NoRooms
        /\ db' = db ) ]_<<vars, storeVars>>

(***************************************************************************)
(* C20 - Degraded mode is observable: when a request has been served from  *)
(* the in-memory rooms, the console of the process holds a line reporting  *)
(* that the database is not in use.                                        *)
(***************************************************************************)
DegradedModeObservable ==
  resp.served = "local" => logged \cap DegradedLogs # {}

\* joinCode.toUpperCase(), on the codes of the model
ToUpperCase(c) == IF c = "ab12cd" THEN "AB12CD" ELSE c

(***************************************************************************)
(* C23 - Room codes are case-insensitive: two registered sockets whose     *)
(* handshake codes differ only in letter case are members of the same set  *)
(* of the registry.                                                        *)
(***************************************************************************)
CaseInsensitiveCodes ==
  \A x \in Conns, y \in Conns :
    (Registered(x) /\ Registered(y) /\ ToUpperCase(code[x]) = ToUpperCase(code[y])) =>
      \E c \in DOMAIN clients : {x, y} \subseteq clients[c]

(***************************************************************************)
(* C28 - Registry membership is exact: the set registered under a code is  *)
(* exactly the set of sockets accepted with that handshake code whose      *)
(* close event has not been processed, whether or not they are still open. *)
(***************************************************************************)
RegistryMembershipExact ==
  \A c \in RoomCodes :
    (IF c \in DOMAIN clients THEN clients[c] ELSE {}) =
      {ws \in Conns : listening[ws] /\ code[ws] = c /\ readyState[ws] # "CLOSED"}

\* of three sockets accepted with one code, the open one and the closing one
\* are registered and the one whose close event was processed is not
RegistryMembershipWitness ==
  \E x \in Conns, y \in Conns, z \in Conns :
    /\ code[x] = code[y] /\ code[y] = code[z] /\ code[x] \in RoomCodes
    /\ readyState[x] = "OPEN" /\ readyState[y] = "CLOSING" /\ readyState[z] = "CLOSED"
    /\ listening[x] /\ listening[y] /\ listening[z]
    /\ clients[code[x]] = {x, y}

(***************************************************************************)
(* C24 - Expiry as NotFound: a read or an update of a code that directly   *)
(* follows the removal of its expired room, and finds no room under the    *)
(* code, is answered 404.                                                  *)
(***************************************************************************)
ExpiryAsNotFound ==
  ( /\ resp.op \in {"read", "update"}
    /\ resp.prev.op = "expire"
    /\ resp.prev.code = resp.code
    /\ Serving # "none"
    /\ Stored(resp.code) = NoRoom ) =>
    resp.status = 404

(***************************************************************************)
(* C25 - Inactivity-based expiry: a room is removed only when the whole    *)
(* expiry window has passed since its last acknowledged create or update.  *)
(***************************************************************************)
InactivityExpiry ==
  [][ \A c \in RoomCodes :
        Expire(c) => ttl[c].idle >= ExpireAfterSeconds(variant) ]_<<vars, storeVars>>

(***************************************************************************)
(* C26 - Update keeps identity: an acknowledged update of code c adds and  *)
(* removes no room, leaves the code and the mode of the room under c as    *)
(* they were, and leaves every other room as it was.                       *)
(***************************************************************************)
UpdateKeepsIdentity ==
  [][ \A c \in {resp'.code} \cap RoomCodes, d \in {resp'.data} \cap Datas :
        (resp'.op = "update" /\ ApiUpdate(c, d) /\ resp'.status = 200) =>
          /\ DOMAIN db' = DOMAIN db
          /\ DOMAIN localRooms' = DOMAIN localRooms
          /\ \A k \in DOMAIN db :
               IF k = c
               THEN db'[k].code = db[k].code /\ db'[k].mode = db[k].mode
               ELSE db'[k] = db[k]
          /\ \A k \in DOMAIN localRooms :
               IF k = c
               THEN localRooms'[k].code = localRooms[k].code
                    /\ localRooms'[k].mode = localRooms[k].mode
               ELSE localRooms'[k] = localRooms[k] ]_<<vars, storeVars>>

\* an update has just written data that no create stores into a COOP room
\* of the collection, and the collection holds a room under the other code
UpdateKeepsIdentityWitness ==
  /\ resp.op = "update" /\ resp.status = 200 /\ resp.served = "mongo"
  /\ DOMAIN db = RoomCodes
  /\ db[resp.code] = RoomDoc(resp.code, "COOP", DataInitial)

(***************************************************************************)
(* C29 - A failed or duplicate create never damages an existing room: a    *)
(* create for a code under which the serving store holds a room leaves     *)
(* that room as it was.                                                    *)
(***************************************************************************)
DuplicateCreateHarmless ==
  [][ \A c \in RoomCodes, m \in Modes, d \in Datas :
        (ApiCreate(c, m, d) /\ Stored(c) # NoRoom) =>
          Stored(c)' = Stored(c) ]_<<vars, storeVars>>

(***************************************************************************)
(* C30 - Update never creates a room: an update of a code under which the  *)
(* serving store holds no room leaves the collection and the in-memory     *)
(* rooms as they were, and the read of the code that follows is answered   *)
(* 404.                                                                    *)
(***************************************************************************)
UpdateNeverCreates ==
  [][ /\ \A c \in {resp'.code} \cap RoomCodes, d \in {resp'.data} \cap Datas :
           (resp'.op = "update" /\ ApiUpdate(c, d) /\ Stored(c) = NoRoom) =>
             /\ db' = db
             /\ localRooms' = localRooms
             /\ Stored(c)' = NoRoom
      /\ \A c \in {resp.code} \cap RoomCodes :
           ( /\ resp.op = "update" /\ resp'.op = "read"
             /\ ApiRead(c)
             /\ Serving # "none" /\ Stored(c) = NoRoom ) =>
             resp'.status = 404 ]_<<vars, storeVars>>

\* an update of a code without a room was acknowledged, and the read that
\* followed it was answered 404, while the store holds another room
UpdateNeverCreatesWitness ==
  /\ resp.op = "read" /\ resp.status = 404
  /\ resp.prev.op = "update" /\ resp.prev.status = 200
  /\ resp.prev.code = resp.code
  /\ Stored(resp.code) = NoRoom
  /\ \E k \in RoomCodes : Stored(k) # NoRoom

(***************************************************************************)
(* C27 - Relay and store are independent: no connect, message or close     *)
(* event of the broker changes the rooms of the collection or the          *)
(* in-memory rooms, and no create, read or update changes the registry.    *)
(***************************************************************************)
RelayStoreIndependent ==
  [][ /\ Next => (db' = db /\ localRooms' = localRooms)
      /\ resp' # resp => clients' = clients ]_<<vars, storeVars>>

(***************************************************************************)
(* C21 - Dual write: when no handler of any player is pending, the room    *)
(* the Snapshot API holds has every chat message, the latest notes and the *)
(* latest verdict that were sent over a live connection.                   *)
(***************************************************************************)
DualWrite ==
  (\A p \in Players : app[p].pc = "idle") =>
    /\ live.chat \subseteq snapshot.data.chat
    /\ live.notes # Null => snapshot.data.notes = live.notes
    /\ live.verdict # Null => snapshot.data.verdict = live.verdict

\* maximum room occupancy of a mode
Capacity(m) == IF m = "SINGLE" THEN 1 ELSE 2

(***************************************************************************)
(* C22 - Occupancy bound: the players admitted to BRIEFING for the room    *)
(* are never more than 1 for mode SINGLE and 2 for mode COOP.              *)
(***************************************************************************)
OccupancyBound ==
  Cardinality({p \in Players : app[p].stage = "BRIEFING"}) <= Capacity(snapshot.mode)

(***************************************************************************)
(* C31 - Stable visibility across availability changes: a room whose       *)
(* create has just been acknowledged with success is still readable, with  *)
(* the data it was stored with, after the database connection is lost or   *)
(* re-established.                                                         *)
(***************************************************************************)
StableVisibility ==
  [][ ( /\ resp.op = "create" /\ resp.status = 200
        /\ (MongoDisconnect \/ MongoReconnect) )
      => ( /\ Stored(resp.code)' # NoRoom
           /\ Stored(resp.code)' = Stored(resp.code) ) ]_<<vars, storeVars>>

(***************************************************************************)
(* C32 - Join is announced to peers: when joinRoom of a player completes,  *)
(* every other player whose socket is open has the joiner in the players   *)
(* of its investigation (it has received the SYNC_STATE of the join).      *)
(***************************************************************************)
JoinAnnounced ==
  [][ \A p \in Players :
        JoinWrite(p) =>
          \A q \in Players \ {p} : app[q].open => p \in app'[q].data.players
    ]_clientVars

(***************************************************************************)
(* C33 - Persisted players list is monotone: a notes, chat or verdict sync *)
(* of any player removes no player from the players the Snapshot API       *)
(* holds.                                                                  *)
(***************************************************************************)
PersistedPlayersMonotone ==
  [][ (\E p \in Players : UpdateNotes(p, p) \/ Answered(p) \/ Evaluated(p))
        => snapshot.data.players \subseteq snapshot'.data.players
    ]_clientVars

(***************************************************************************)
(* C34 - No chat message is lost locally: when the reply of a player's     *)
(* pending interrogation is applied, every message that was in the chat    *)
(* history of that player is still in it.                                  *)
(***************************************************************************)
NoChatMessageLost ==
  [][ \A p \in Players :
        Answered(p) => app[p].data.chat \subseteq app'[p].data.chat
    ]_clientVars

(***************************************************************************)
(* C35 - Room creation is confirmed before use: createRoom takes the page  *)
(* from GENERATING to BRIEFING only with a create of the page's new room   *)
(* code that the server acknowledged with success, and takes it back to    *)
(* START without changing the room code.                                   *)
(***************************************************************************)
CreationConfirmed ==
  [][ /\ (gameState = "GENERATING" /\ gameState' = "BRIEFING")
        => ( /\ resp'.op = "create" /\ resp'.status = 200
             /\ resp'.code = investigation'.code )
      /\ (gameState = "GENERATING" /\ gameState' = "START")
        => investigation' = investigation ]_<<storeVars, pageVars>>

(***************************************************************************)
(* C36 - One socket per client: the page has at most one socket on which   *)
(* close() has not been called and whose connection has not ended, that    *)
(* socket was opened with the current room code of the page, and every     *)
(* message the page handled came over a socket of the room code the page   *)
(* had at that time.                                                       *)
(***************************************************************************)
OneSocketPerClient ==
  /\ Cardinality({i \in DOMAIN sockets : InUse(sockets[i])}) <= 1
  /\ \A i \in DOMAIN sockets :
       InUse(sockets[i]) => sockets[i].code = investigation.code
  /\ handled.socket = handled.code

\* the call has returned or thrown
Settled(call) == call.pc \in {"returned", "thrown"}

(***************************************************************************)
(* C37 - Bounded retry: a call of callWithRetry invokes fn at most         *)
(* maxRetries times; it returns at the first attempt that succeeds, throws *)
(* at the first attempt that fails with another error than a rate limit,   *)
(* throws the rate limit error after maxRetries rate-limited attempts, is  *)
(* left alone once it has returned or thrown, and every call made does     *)
(* return or throw.                                                        *)
(***************************************************************************)
BoundedRetry ==
  /\ [](\A k \in DOMAIN calls :
          /\ calls[k].attempts <= MaxRetries
          /\ calls[k].pc = "returned" =>
               calls[k].attempts = calls[k].i + 1
          /\ (calls[k].pc = "thrown" /\ calls[k].lastError = "other") =>
               calls[k].attempts = calls[k].i + 1
          /\ (calls[k].pc = "thrown" /\ calls[k].lastError = "429") =>
               (calls[k].attempts = MaxRetries /\ calls[k].i = MaxRetries)
          /\ calls[k].pc = "thrown" => calls[k].lastError # Null)
  /\ [][\A k \in DOMAIN calls :
          /\ Settled(calls[k]) => calls'[k] = calls[k]
          /\ Succeed(k) => calls'[k].pc = "returned"
          /\ FailOther(k) => calls'[k].pc = "thrown"]_retryVars
  /\ \A k \in 1..MaxCalls :
       (k \in DOMAIN calls) ~> (k \in DOMAIN calls /\ Settled(calls[k]))

\* two calls have been made with one key: one returned at its third attempt,
\* the other threw the rate limit error after maxRetries attempts
BoundedRetryWitness ==
  /\ apiKeys = 1
  /\ Len(calls) = 2
  /\ calls[1].pc = "returned" /\ calls[1].attempts = 3
  /\ calls[2].pc = "thrown" /\ calls[2].lastError = "429"
  /\ calls[2].attempts = MaxRetries

(***************************************************************************)
(* C38 - Rotation switches key: with more than one key, the attempt that   *)
(* follows a rate-limited attempt of a call uses another key than the one  *)
(* that failed, and currentKeyIndex is an index of apiKeys.                *)
(***************************************************************************)
RotationSwitchesKey ==
  [][ /\ \A k \in DOMAIN calls :
           (apiKeys > 1 /\ RateLimited(k)) => calls'[k].key # calls[k].key
      /\ apiKeys > 0 => currentKeyIndex' \in 0..(apiKeys - 1) ]_retryVars

====
